---- MODULE Spec2Model ----
(***************************************************************************)
(* State-machine model of the chat front end of wesleyfariias/bedrock.     *)
(*                                                                         *)
(*   src/frontend/src/components/BedrockClaudeChat.tsx                     *)
(*     BedrockClaudeChatRefactor : chat tab   (onSendChat, clearChat)      *)
(*                                 story tab  (onStoryPreview,             *)
(*                                             onStoryApprove, clearStory) *)
(*     BedrockClaudeChat         : chat against /api/bedrock               *)
(*                                 (sendMessage, clearChat)                *)
(*   src/frontend/src/app/api/bedrock/route.ts                             *)
(*     toAnthropicPrompt, POST                                             *)
(*                                                                         *)
(* A text is a sequence of tokens: " " and "\n" are the whitespace         *)
(* characters, every other token stands for a run of non-whitespace        *)
(* characters.  trim and cleanMultiline only ever look at whitespace, so   *)
(* they are computed on this representation exactly as on the string.      *)
(* Error messages, context strings and storage URIs are never trimmed or   *)
(* cleaned by the code and are plain strings; Null stands for JS null.     *)
(*                                                                         *)
(* React state is modelled at the granularity of one event handler run or  *)
(* one promise continuation (React re-renders between discrete events, so  *)
(* each handler closes over the state left by the previous one).  An       *)
(* awaited fetch is a request waiting in a pending list; its continuation  *)
(* (try / catch / finally) is the response action.                         *)
(***************************************************************************)
EXTENDS Integers, Sequences, FiniteSets, TLC

VARIABLES
    component,      \* which default export is mounted: "refactor" | "bedrock"
    event,          \* the handler or continuation that ran last
    \* BedrockClaudeChatRefactor, chat tab (lines 68-78)
    messages, input, chatLoading, chatError, chatCitations,
    chatPending,    \* fetch(API.chat) calls awaiting their response
    \* BedrockClaudeChatRefactor, story tab (lines 81-87)
    storyObj, storyCtx, storyLoading, storyError, storyPreview,
    storySavedUri, storyCitations,
    storyPending,   \* fetch(API.story) calls awaiting their response
    previewOf,      \* history: body of the preview request that produced storyPreview
    savedOf,        \* history: the approve request that produced storySavedUri
    \* BedrockClaudeChat (lines 456-461)
    inputB, loading, error, messagesB,
    pendingB,       \* fetch('/api/bedrock') calls awaiting their response
    \* evaluation of a pure function on its own: the argument and the value
    fnArg, fnResult,
    \* POST /api/bedrock (route.ts lines 24-62), one request at a time; each
    \* holds no element or one
    request,        \* the request being handled, as req.json() settles
    sent,           \* the prompt handed to client.send for it
    reply,          \* what client.send settled with
    returned        \* the NextResponse the handler returned

chatVars  == <<messages, input, chatLoading, chatError, chatCitations, chatPending>>
storyVars == <<storyObj, storyCtx, storyLoading, storyError, storyPreview,
               storySavedUri, storyCitations, storyPending, previewOf, savedOf>>
bedrockVars == <<inputB, loading, error, messagesB, pendingB>>
fnVars == <<fnArg, fnResult>>
routeVars == <<request, sent, reply, returned>>
vars == <<component, event, chatVars, storyVars, bedrockVars, fnVars, routeVars>>

----------------------------------------------------------------------------
(* Bounds of the model *)

\* accepted submits stop once a transcript holds this many turns
MaxTurns == 4

\* direct calls of the story handlers stop at this many requests in flight
MaxPending == 1

\* longest text the normalisation is evaluated on
MaxLen == 6

\* longest history toAnthropicPrompt is evaluated on
MaxHistory == 3

----------------------------------------------------------------------------
(* Values *)

Null == "<null>"

SP == " "
NL == "\n"
Whitespace == {SP, NL}

\* what the user may type into the chat textarea
InputTexts == { <<>>, <<SP>>, <<"hi">>, <<SP, "yo", NL>>, <<"/story", SP, "onboarding">> }

\* answer / output fields a backend may return
AnswerTexts == { <<>>, <<SP, NL>>, <<"ok">>, <<"a", NL, NL, NL, "b", SP>> }

SourceLists == { <<>>, <<"doc1">> }

----------------------------------------------------------------------------
(* Pure helpers *)

RECURSIVE trimStart(_)
trimStart(s) ==
    IF s # <<>> /\ Head(s) \in Whitespace THEN trimStart(Tail(s)) ELSE s

RECURSIVE trimEnd(_)
trimEnd(s) ==
    IF s # <<>> /\ s[Len(s)] \in Whitespace
    THEN trimEnd(SubSeq(s, 1, Len(s) - 1))
    ELSE s

\* String.prototype.trim
trim(s) == trimEnd(trimStart(s))

\* number of consecutive "\n" at the start of s
RECURSIVE newlineRun(_)
newlineRun(s) ==
    IF s # <<>> /\ Head(s) = NL THEN 1 + newlineRun(Tail(s)) ELSE 0

\* faulty variant: the regex is /\n{3}/g, three newlines at a time
RECURSIVE cleanMultiline_PerTriple(_)
cleanMultiline_PerTriple(s) ==
    IF s = <<>> THEN <<>>
    ELSE LET n == newlineRun(s) IN
         IF n >= 3 THEN <<NL, NL>> \o cleanMultiline_PerTriple(SubSeq(s, 4, Len(s)))
         ELSE IF n >= 1 THEN SubSeq(s, 1, n) \o cleanMultiline_PerTriple(SubSeq(s, n + 1, Len(s)))
         ELSE <<Head(s)>> \o cleanMultiline_PerTriple(Tail(s))

\* s.replace(/\n{3,}/g, '\n\n'): the regex is greedy, so each maximal run of
\* three or more newlines is one match
RECURSIVE cleanMultiline(_)
cleanMultiline(s) ==
    IF s = <<>> THEN <<>>
    ELSE LET n == newlineRun(s) IN
         IF n >= 3 THEN <<NL, NL>> \o cleanMultiline(SubSeq(s, n + 1, Len(s)))
         ELSE IF n >= 1 THEN SubSeq(s, 1, n) \o cleanMultiline(SubSeq(s, n + 1, Len(s)))
         ELSE <<Head(s)>> \o cleanMultiline(Tail(s))

\* (arr || []).map((u) => ({ uri: u })); data is the parsed JSON object
asCitations(data) ==
    IF "kendra_sources" \in DOMAIN data
    THEN [i \in 1..Len(data.kendra_sources) |-> [uri |-> data.kendra_sources[i]]]
    ELSE <<>>

Msg(role, content) == [role |-> role, content |-> content]

----------------------------------------------------------------------------
(* HTTP responses *)

\* A failed exchange, as the handlers see it:
\*   "http"    : res.ok is false; body is the text of the response when it can
\*               be read, statusText is what safeReadText falls back to
\*   "network" : fetch itself rejected (a TypeError with a message)
\*   "badjson" : res.ok, but res.json() rejected (a SyntaxError with a message)
Failures ==
    [kind : {"http"}, status : {404, 500}, readable : BOOLEAN,
     body : {"", "boom"}, statusText : {"", "Internal Server Error"}]
    \cup {[kind |-> "network", message |-> "Failed to fetch"]}
    \cup {[kind |-> "badjson", message |-> "Unexpected token"]}

\* safeReadText(res) for a response with res.ok false
safeReadText(res) ==
    IF res.readable THEN res.body
    ELSE IF res.statusText # "" THEN res.statusText ELSE "Erro HTTP"

\* `HTTP ${res.status}`
httpStatusMessage(res) == IF res.status = 404 THEN "HTTP 404" ELSE "HTTP 500"

\* the message of the Error caught in BedrockClaudeChatRefactor's handlers:
\* throw new Error(errTxt || `HTTP ${res.status}`), or the rejection's own message
refactorFailureMessage(res) ==
    IF res.kind = "http"
    THEN (IF safeReadText(res) # "" THEN safeReadText(res) ELSE httpStatusMessage(res))
    ELSE res.message

\* parsed JSON bodies of a successful /chat response (type ChatResponse)
ChatData ==
    [answer : AnswerTexts, kendra_sources : SourceLists]
    \cup [answer : AnswerTexts]
    \cup [saved : {Null}]

----------------------------------------------------------------------------
(* BedrockClaudeChatRefactor: chat tab *)

Greeting == <<"Ola! Este front usa o backend FastAPI">>
NewChatGreeting == <<"Novo chat iniciado. Faca sua pergunta tecnica.">>
\* the em dash of line 126, written in ASCII
Placeholder == <<"--">>

\* faulty variant: the guard forgets the request in flight
sendRejected_BlankOnly(text, inFlight) == text = <<>>

\* line 97: if (!text || chatLoading) return
sendRejected(text, inFlight) == text = <<>> \/ inFlight

\* onChange of the textarea
setInput(v) ==
    /\ component = "refactor"
    /\ input' = v
    /\ event' = "setInput"
    /\ UNCHANGED <<component, messages, chatLoading, chatError, chatCitations,
                   chatPending, storyVars, bedrockVars, fnVars, routeVars>>

\* faulty variant: input that starts with /story is taken for a command and
\* sent to the generator endpoint as a preview request
onSendChat_RoutesCommands ==
    /\ component = "refactor"
    /\ event' = "onSendChat"
    /\ LET text == trim(input) IN
       IF sendRejected(text, chatLoading)
       THEN UNCHANGED <<chatVars, storyVars>>
       ELSE /\ Len(messages) < MaxTurns
            /\ input' = <<>>
            /\ chatError' = Null
            /\ chatCitations' = <<>>
            /\ messages' = Append(messages, Msg("user", text))
            /\ IF Head(text) = "/story"
               THEN /\ storyLoading' = TRUE
                    /\ storyPending' = Append(storyPending,
                           [body |-> [objetivo |-> trim(Tail(text)), contexto |-> Null,
                                      approve |-> FALSE],
                            preview |-> <<>>])
                    /\ UNCHANGED <<chatLoading, chatPending, storyObj, storyCtx, storyError,
                                   storyPreview, storySavedUri, storyCitations,
                                   previewOf, savedOf>>
               ELSE /\ chatLoading' = TRUE
                    /\ chatPending' = Append(chatPending,
                           [messages |-> Append(messages, Msg("user", text))])
                    /\ UNCHANGED storyVars
    /\ UNCHANGED <<component, bedrockVars, fnVars, routeVars>>

\* faulty variant: the request is built from the transcript of the last render,
\* without the turn just typed
onSendChat_StaleHistory ==
    /\ component = "refactor"
    /\ event' = "onSendChat"
    /\ LET text == trim(input) IN
       IF sendRejected(text, chatLoading)
       THEN UNCHANGED <<input, messages, chatLoading, chatError, chatCitations, chatPending>>
       ELSE /\ Len(messages) < MaxTurns
            /\ LET userMsg == Msg("user", text)
                   nextMessages == Append(messages, userMsg) IN
               /\ input' = <<>>
               /\ chatError' = Null
               /\ chatCitations' = <<>>
               /\ messages' = nextMessages
               /\ chatLoading' = TRUE
               /\ chatPending' = Append(chatPending, [messages |-> messages])
    /\ UNCHANGED <<component, storyVars, bedrockVars, fnVars, routeVars>>

onSendChat ==
    /\ component = "refactor"
    /\ event' = "onSendChat"
    /\ LET text == trim(input) IN
       IF sendRejected(text, chatLoading)
       THEN UNCHANGED <<input, messages, chatLoading, chatError, chatCitations, chatPending>>
       ELSE /\ Len(messages) < MaxTurns
            /\ LET userMsg == Msg("user", text)
                   nextMessages == Append(messages, userMsg) IN
               /\ input' = <<>>
               /\ chatError' = Null
               /\ chatCitations' = <<>>
               /\ messages' = nextMessages
               /\ chatLoading' = TRUE
               /\ chatPending' = Append(chatPending, [messages |-> nextMessages])
    /\ UNCHANGED <<component, storyVars, bedrockVars, fnVars, routeVars>>

\* line 122: cleanMultiline(raw.trim())
normalizeAnswer(raw) == cleanMultiline(trim(raw))

\* the text of the assistant turn: cleanMultiline((data.answer || '').trim()) || Placeholder
chatAnswer(data) ==
    LET raw == IF "answer" \in DOMAIN data THEN data.answer ELSE <<>>
        answer == normalizeAnswer(raw) IN
    IF answer # <<>> THEN answer ELSE Placeholder

RemoveAt(s, i) == SubSeq(s, 1, i - 1) \o SubSeq(s, i + 1, Len(s))

\* faulty variant: a successful response sets the citations but appends no turn
chatResolved_NoTurn(i, data) ==
    /\ component = "refactor"
    /\ i \in 1..Len(chatPending)
    /\ event' = "chatResolved"
    /\ chatPending' = RemoveAt(chatPending, i)
    /\ chatCitations' = asCitations(data)
    /\ chatLoading' = FALSE
    /\ UNCHANGED <<component, input, messages, chatError, storyVars, bedrockVars, fnVars, routeVars>>

\* faulty variant: the answer is appended to the transcript the request was
\* sent with, not to the current one
chatResolved_StaleTranscript(i, data) ==
    /\ component = "refactor"
    /\ i \in 1..Len(chatPending)
    /\ event' = "chatResolved"
    /\ chatPending' = RemoveAt(chatPending, i)
    /\ chatCitations' = asCitations(data)
    /\ messages' = Append(chatPending[i].messages, Msg("assistant", chatAnswer(data)))
    /\ chatLoading' = FALSE
    /\ UNCHANGED <<component, input, chatError, storyVars, bedrockVars, fnVars, routeVars>>

\* lines 121-126 and 130-133: the response is ok and parses
chatResolved(i, data) ==
    /\ component = "refactor"
    /\ i \in 1..Len(chatPending)
    /\ event' = "chatResolved"
    /\ chatPending' = RemoveAt(chatPending, i)
    /\ chatCitations' = asCitations(data)
    /\ messages' = Append(messages, Msg("assistant", chatAnswer(data)))
    /\ chatLoading' = FALSE
    /\ UNCHANGED <<component, input, chatError, storyVars, bedrockVars, fnVars, routeVars>>

\* faulty variant: the failure takes the optimistic user turn back
chatFailed_Rollback(i, res) ==
    /\ component = "refactor"
    /\ i \in 1..Len(chatPending)
    /\ event' = "chatFailed"
    /\ chatPending' = RemoveAt(chatPending, i)
    /\ chatError' = refactorFailureMessage(res)
    /\ chatLoading' = FALSE
    /\ messages' = SubSeq(messages, 1, Len(messages) - 1)
    /\ UNCHANGED <<component, input, chatCitations, storyVars, bedrockVars, fnVars, routeVars>>

\* faulty variant: the finally block is missing, the loading flag stays set
chatFailed_StaysLoading(i, res) ==
    /\ component = "refactor"
    /\ i \in 1..Len(chatPending)
    /\ event' = "chatFailed"
    /\ chatPending' = RemoveAt(chatPending, i)
    /\ chatError' = refactorFailureMessage(res)
    /\ UNCHANGED <<component, input, messages, chatLoading, chatCitations,
                   storyVars, bedrockVars, fnVars, routeVars>>

\* lines 116-119 and 127-133: non-ok status, rejected fetch or unparsable body
chatFailed(i, res) ==
    /\ component = "refactor"
    /\ i \in 1..Len(chatPending)
    /\ event' = "chatFailed"
    /\ chatPending' = RemoveAt(chatPending, i)
    /\ chatError' = refactorFailureMessage(res)
    /\ chatLoading' = FALSE
    /\ UNCHANGED <<component, input, messages, chatCitations, storyVars, bedrockVars, fnVars, routeVars>>

\* faulty variant: the reset also drops the loading flag while the request is still out
clearChat_ClearsLoading ==
    /\ component = "refactor"
    /\ event' = "clearChat"
    /\ messages' = <<Msg("assistant", NewChatGreeting)>>
    /\ chatError' = Null
    /\ chatCitations' = <<>>
    /\ chatLoading' = FALSE
    /\ UNCHANGED <<component, input, chatPending, storyVars, bedrockVars, fnVars, routeVars>>

\* faulty variant: the reset empties the transcript
clearChat_Empty ==
    /\ component = "refactor"
    /\ event' = "clearChat"
    /\ messages' = <<>>
    /\ chatError' = Null
    /\ chatCitations' = <<>>
    /\ UNCHANGED <<component, input, chatLoading, chatPending, storyVars, bedrockVars, fnVars, routeVars>>

\* faulty variant: the reset abandons the request in flight
clearChat_Cancels ==
    /\ component = "refactor"
    /\ event' = "clearChat"
    /\ messages' = <<Msg("assistant", NewChatGreeting)>>
    /\ chatError' = Null
    /\ chatCitations' = <<>>
    /\ chatLoading' = FALSE
    /\ chatPending' = <<>>
    /\ UNCHANGED <<component, input, storyVars, bedrockVars, fnVars, routeVars>>

clearChat ==
    /\ component = "refactor"
    /\ event' = "clearChat"
    /\ messages' = <<Msg("assistant", NewChatGreeting)>>
    /\ chatError' = Null
    /\ chatCitations' = <<>>
    /\ UNCHANGED <<component, input, chatLoading, chatPending, storyVars, bedrockVars, fnVars, routeVars>>

----------------------------------------------------------------------------
(* BedrockClaudeChat: chat against /api/bedrock *)

GreetingB == <<"Ola! Sou o BedRock. Como posso te ajudar hoje?">>
NewChatGreetingB == <<"Novo chat iniciado. O que voce quer fazer?">>

\* parsed JSON bodies of a successful /api/bedrock response
BedrockData ==
    [output : AnswerTexts]
    \cup [error : {"", "Erro interno"}]
    \cup [output : {<<"ok">>}, error : {"Erro interno"}]

setInputB(v) ==
    /\ component = "bedrock"
    /\ inputB' = v
    /\ event' = "setInputB"
    /\ UNCHANGED <<component, loading, error, messagesB, pendingB, chatVars, storyVars, fnVars, routeVars>>

sendMessage ==
    /\ component = "bedrock"
    /\ event' = "sendMessage"
    /\ LET text == trim(inputB) IN
       IF sendRejected(text, loading)
       THEN UNCHANGED <<inputB, loading, error, messagesB, pendingB>>
       ELSE /\ Len(messagesB) < MaxTurns
            /\ LET userMsg == Msg("user", text)
                   nextMessages == Append(messagesB, userMsg) IN
               /\ inputB' = <<>>
               /\ error' = Null
               /\ messagesB' = nextMessages
               /\ loading' = TRUE
               /\ pendingB' = Append(pendingB, [message |-> text, history |-> nextMessages])
    /\ UNCHANGED <<component, chatVars, storyVars, fnVars, routeVars>>

\* line 496: if (data.error) throw new Error(data.error)
hasError(data) == "error" \in DOMAIN data /\ data.error # ""

\* line 500: (data.output ?? '').trim()
bedrockOutput(data) ==
    trim(IF "output" \in DOMAIN data THEN data.output ELSE <<>>)

\* lines 495-501 and 505-508: ok response without an error field
bedrockResolved(i, data) ==
    /\ component = "bedrock"
    /\ i \in 1..Len(pendingB)
    /\ ~hasError(data)
    /\ event' = "bedrockResolved"
    /\ pendingB' = RemoveAt(pendingB, i)
    /\ messagesB' = Append(messagesB, Msg("assistant", bedrockOutput(data)))
    /\ loading' = FALSE
    /\ UNCHANGED <<component, inputB, error, chatVars, storyVars, fnVars, routeVars>>

\* the message of the Error caught in sendMessage: safeReadText(res) unguarded
\* (line 493), data.error (line 496) or the rejection's own message
bedrockFailureMessage(res) ==
    IF res.kind = "http" THEN safeReadText(res)
    ELSE res.message

bedrockFailures == Failures \cup {[kind |-> "dataerror", message |-> "Erro interno"]}

\* lines 493, 496 and 502-508
bedrockFailed(i, res) ==
    /\ component = "bedrock"
    /\ i \in 1..Len(pendingB)
    /\ event' = "bedrockFailed"
    /\ pendingB' = RemoveAt(pendingB, i)
    /\ error' = bedrockFailureMessage(res)
    /\ loading' = FALSE
    /\ UNCHANGED <<component, inputB, messagesB, chatVars, storyVars, fnVars, routeVars>>

clearChatB ==
    /\ component = "bedrock"
    /\ event' = "clearChatB"
    /\ messagesB' = <<Msg("assistant", NewChatGreetingB)>>
    /\ error' = Null
    /\ UNCHANGED <<component, inputB, loading, pendingB, chatVars, storyVars, fnVars, routeVars>>

----------------------------------------------------------------------------
(* BedrockClaudeChatRefactor: story tab *)

\* what the user may type into the objective and context fields
ObjTexts == { <<>>, <<SP>>, <<"login">>, <<"onboarding", SP>> }
CtxStrings == { "", "urgent" }

PreviewTexts == { <<>>, <<"Draft">>, <<"Draft", NL, NL, NL, "x">> }
SavedUris == { "s3://bucket/a", "s3://bucket/b" }
UsageHint == "Informe o objetivo."

\* parsed JSON bodies of a successful preview response (type GenStoryPreview)
PreviewData ==
    [preview : PreviewTexts, kendra_sources : SourceLists]
    \cup [preview : PreviewTexts]
    \cup [notice : {""}]

\* parsed JSON bodies of a successful approve response (type GenStorySaved)
SavedData ==
    [saved : SavedUris \cup {""}]
    \cup [notice : {""}]

\* JSON.stringify({ objetivo: storyObj, contexto: storyCtx || null, approve })
storyBody(approve) ==
    [objetivo |-> storyObj,
     contexto |-> IF storyCtx # "" THEN storyCtx ELSE Null,
     approve  |-> approve]

\* faulty variant: the objective is tested without trimming it
objectiveMissing_Untrimmed == storyObj = <<>>

\* lines 153 and 185: !storyObj.trim()
objectiveMissing == trim(storyObj) = <<>>

setStoryObj(v) ==
    /\ component = "refactor"
    /\ event' = "setStoryObj"
    /\ storyObj' = v
    /\ UNCHANGED <<component, storyCtx, storyLoading, storyError, storyPreview,
                   storySavedUri, storyCitations, storyPending, previewOf, savedOf,
                   chatVars, bedrockVars, fnVars, routeVars>>

setStoryCtx(v) ==
    /\ component = "refactor"
    /\ event' = "setStoryCtx"
    /\ storyCtx' = v
    /\ UNCHANGED <<component, storyObj, storyLoading, storyError, storyPreview,
                   storySavedUri, storyCitations, storyPending, previewOf, savedOf,
                   chatVars, bedrockVars, fnVars, routeVars>>

\* A pending story request: the body that was sent and, as history, the preview
\* that was on screen when it was sent.
onStoryPreview ==
    /\ component = "refactor"
    /\ event' = "onStoryPreview"
    /\ IF objectiveMissing
       THEN /\ storyError' = UsageHint
            /\ UNCHANGED <<storyLoading, storyPreview, storySavedUri, storyCitations,
                           storyPending, previewOf, savedOf>>
       ELSE /\ storyError' = Null
            /\ storyPreview' = <<>>
            /\ storySavedUri' = Null
            /\ storyCitations' = <<>>
            /\ storyLoading' = TRUE
            /\ storyPending' = Append(storyPending,
                                      [body |-> storyBody(FALSE), preview |-> <<>>])
            /\ previewOf' = <<>>
            /\ savedOf' = <<>>
    /\ UNCHANGED <<component, storyObj, storyCtx, chatVars, bedrockVars, fnVars, routeVars>>

\* the body onStoryApprove sends (line 192)
approveBody == storyBody(TRUE)

\* whether onStoryApprove returns before sending (line 185)
approveSkipped == objectiveMissing

onStoryApprove ==
    /\ component = "refactor"
    /\ event' = "onStoryApprove"
    /\ IF approveSkipped
       THEN UNCHANGED <<storyLoading, storyError, storyPending>>
       ELSE /\ storyLoading' = TRUE
            /\ storyError' = Null
            /\ storyPending' = Append(storyPending,
                                      [body |-> approveBody, preview |-> storyPreview])
    /\ UNCHANGED <<component, storyObj, storyCtx, storyPreview, storySavedUri,
                   storyCitations, previewOf, savedOf, chatVars, bedrockVars, fnVars, routeVars>>

\* cleanMultiline(data.preview || '')
previewText(data) ==
    cleanMultiline(IF "preview" \in DOMAIN data THEN data.preview ELSE <<>>)

\* data.saved || null
savedUri(data) ==
    IF "saved" \in DOMAIN data /\ data.saved # "" THEN data.saved ELSE Null

\* lines 173-175 and 179-181: the preview response is ok and parses
storyPreviewResolved(i, data) ==
    /\ component = "refactor"
    /\ i \in 1..Len(storyPending)
    /\ ~storyPending[i].body.approve
    /\ event' = "storyPreviewResolved"
    /\ storyPending' = RemoveAt(storyPending, i)
    /\ storyPreview' = previewText(data)
    /\ storyCitations' = asCitations(data)
    /\ storyLoading' = FALSE
    /\ previewOf' = <<storyPending[i].body>>
    /\ UNCHANGED <<component, storyObj, storyCtx, storyError, storySavedUri, savedOf,
                   chatVars, bedrockVars, fnVars, routeVars>>

\* lines 198-199 and 203-205: the approve response is ok and parses
storyApproveResolved(i, data) ==
    /\ component = "refactor"
    /\ i \in 1..Len(storyPending)
    /\ storyPending[i].body.approve
    /\ event' = "storyApproveResolved"
    /\ storyPending' = RemoveAt(storyPending, i)
    /\ storySavedUri' = savedUri(data)
    /\ storyLoading' = FALSE
    /\ savedOf' = <<storyPending[i]>>
    /\ UNCHANGED <<component, storyObj, storyCtx, storyError, storyPreview,
                   storyCitations, previewOf, chatVars, bedrockVars, fnVars, routeVars>>

\* faulty variant: a failed request throws the preview away
approveFailureDiscards ==
    /\ storyPreview' = <<>>
    /\ storyCitations' = <<>>
    /\ UNCHANGED storySavedUri

\* what the catch block of onStoryApprove changes besides the error (lines 200-202)
approveFailureKeeps == UNCHANGED <<storyPreview, storyCitations, storySavedUri>>

\* lines 169-172, 176-181 (preview) and 194-197, 200-205 (approve)
storyFailed(i, res) ==
    /\ component = "refactor"
    /\ i \in 1..Len(storyPending)
    /\ event' = IF storyPending[i].body.approve
                THEN "storyApproveFailed" ELSE "storyPreviewFailed"
    /\ storyPending' = RemoveAt(storyPending, i)
    /\ storyError' = refactorFailureMessage(res)
    /\ storyLoading' = FALSE
    /\ approveFailureKeeps
    /\ UNCHANGED <<component, storyObj, storyCtx, previewOf, savedOf, chatVars, bedrockVars, fnVars, routeVars>>

clearStory ==
    /\ component = "refactor"
    /\ event' = "clearStory"
    /\ storyObj' = <<>>
    /\ storyCtx' = ""
    /\ storyPreview' = <<>>
    /\ storySavedUri' = Null
    /\ storyCitations' = <<>>
    /\ storyError' = Null
    /\ previewOf' = <<>>
    /\ savedOf' = <<>>
    /\ UNCHANGED <<component, storyLoading, storyPending, chatVars, bedrockVars, fnVars, routeVars>>

\* The buttons of the story tab, each enabled as its disabled attribute says
\* (lines 367 and 375; Limpar is never disabled).
clickPreview == ~(storyLoading \/ objectiveMissing) /\ onStoryPreview
clickApprove == ~(storyLoading \/ storyPreview = <<>>) /\ onStoryApprove

----------------------------------------------------------------------------
(* src/frontend/src/app/api/bedrock/route.ts *)

\* A prompt is the sequence of the strings that toAnthropicPrompt joins.  Each
\* is "\n\nHuman:" or "\n\nAssistant:" (the tag), followed by " " and a content
\* (text holds it) or by nothing (text is empty).
promptLine(m) ==
    [tag |-> IF m.role = "user" THEN "Human" ELSE "Assistant", text |-> <<m.content>>]

HumanPrefix  == [tag |-> "Human", text |-> <<>>]
AssistantCue == [tag |-> "Assistant", text |-> <<>>]

\* faulty variant: the joined lines are returned as they are (line 21 left out)
toAnthropicPrompt_Unprefixed(history, userMessage) ==
    [k \in 1..Len(history) |-> promptLine(history[k])]
        \o <<[tag |-> "Human", text |-> <<userMessage>>], AssistantCue>>

toAnthropicPrompt(history, userMessage) ==
    LET lines == [k \in 1..Len(history) |-> promptLine(history[k])]
                 \o <<[tag |-> "Human", text |-> <<userMessage>>], AssistantCue>>
    IN  IF lines[1].tag = "Human" THEN lines ELSE <<HumanPrefix>> \o lines

\* what req.json() settles with: the parsed body, whose fields may be
\* missing, or the rejection of a body that is not JSON
RouteMessages == { <<>>, <<SP>>, <<"hi">>, <<"yo">> }

RouteHistories ==
    { <<>>,
      <<Msg("user", <<"hi">>)>>,
      <<Msg("assistant", GreetingB)>>,
      <<Msg("assistant", GreetingB), Msg("user", <<"hi">>)>> }

RequestBodies ==
    [message : RouteMessages, history : RouteHistories]
    \cup [message : RouteMessages]
    \cup [history : RouteHistories]

Requests ==
    [ok : {TRUE}, body : RequestBodies]
    \cup [ok : {FALSE}, message : {"Unexpected token h in JSON"}]

\* the JSON object in the body of the model's response
ModelData ==
    [completion : {<<>>, <<"ok">>}, output : {<<>>, <<"out">>}]
    \cup [completion : {<<>>, <<"ok">>}]
    \cup [output : {<<>>, <<"out">>}]

\* what awaiting client.send and parsing its body come to:
\*   "rejected"   : client.send threw an Error with this message
\*   "unparsable" : JSON.parse threw (an empty body among the causes)
\*   "json"       : the body parsed to data
ModelReplies ==
    [kind : {"rejected"}, message : {"", "AccessDeniedException"}]
    \cup [kind : {"unparsable"}, message : {"Unexpected end of JSON input"}]
    \cup [kind : {"json"}, data : ModelData]

\* line 27: !message
messageMissing(body) == "message" \notin DOMAIN body \/ body.message = <<>>

\* line 28
badRequest == [status |-> 400, body |-> [error |-> "message e obrigatorio"]]

\* faulty variant: the error's message goes out as it is
caught_NoFallback(message) ==
    [status |-> 500, body |-> [error |-> message]]

\* lines 57-60: err.message || "Erro interno"
caught(message) ==
    [status |-> 500, body |-> [error |-> IF message = "" THEN "Erro interno" ELSE message]]

\* line 54: data.completion || data.output || ""
completionOf(data) ==
    IF "completion" \in DOMAIN data /\ data.completion # <<>> THEN data.completion
    ELSE IF "output" \in DOMAIN data /\ data.output # <<>> THEN data.output
    ELSE <<>>

\* line 56
okResponse(output) == [status |-> 200, body |-> [output |-> output]]

\* history: Msg[] = [] (line 9)
historyOf(body) == IF "history" \in DOMAIN body THEN body.history ELSE <<>>

\* lines 25-51: from the call of the handler to the await of client.send
POST(r) ==
    /\ request = <<>> \/ returned # <<>>
    /\ event' = "POST"
    /\ request' = <<r>>
    /\ reply' = <<>>
    /\ IF ~r.ok
       THEN /\ sent' = <<>>
            /\ returned' = <<caught(r.message)>>
       ELSE IF messageMissing(r.body)
       THEN /\ sent' = <<>>
            /\ returned' = <<badRequest>>
       ELSE /\ sent' = <<toAnthropicPrompt(historyOf(r.body), r.body.message)>>
            /\ returned' = <<>>
    /\ UNCHANGED <<component, chatVars, storyVars, bedrockVars, fnVars>>

\* lines 51-60: client.send settles
modelReplied(rp) ==
    /\ sent # <<>>
    /\ returned = <<>>
    /\ event' = "modelReplied"
    /\ reply' = <<rp>>
    /\ returned' = << IF rp.kind = "json" THEN okResponse(completionOf(rp.data))
                      ELSE caught(rp.message) >>
    /\ UNCHANGED <<component, request, sent, chatVars, storyVars, bedrockVars, fnVars>>

----------------------------------------------------------------------------
(* Initial state: the useState initialisers *)

Init ==
    /\ component \in {"refactor", "bedrock"}
    /\ event = "mount"
    /\ messages = <<Msg("assistant", Greeting)>>
    /\ input = <<>>
    /\ chatLoading = FALSE
    /\ chatError = Null
    /\ chatCitations = <<>>
    /\ chatPending = <<>>
    /\ storyObj = <<>>
    /\ storyCtx = ""
    /\ storyLoading = FALSE
    /\ storyError = Null
    /\ storyPreview = <<>>
    /\ storySavedUri = Null
    /\ storyCitations = <<>>
    /\ storyPending = <<>>
    /\ previewOf = <<>>
    /\ savedOf = <<>>
    /\ inputB = <<>>
    /\ loading = FALSE
    /\ error = Null
    /\ messagesB = <<Msg("assistant", GreetingB)>>
    /\ pendingB = <<>>
    /\ fnArg = <<>>
    /\ fnResult = <<>>
    /\ request = <<>>
    /\ sent = <<>>
    /\ reply = <<>>
    /\ returned = <<>>

\* The chat of either component.  The handlers are callable in every state:
\* the disabled attributes of the textarea and the send button (lines 307, 315,
\* 575, 583) only keep the user from reaching the handler's own guard.
ChatResponse ==
    \E i \in 1..Len(chatPending) :
        \/ \E data \in ChatData : chatResolved(i, data)
        \/ \E res \in Failures : chatFailed(i, res)

BedrockResponse ==
    \E i \in 1..Len(pendingB) :
        \/ \E data \in BedrockData : bedrockResolved(i, data)
        \/ \E res \in bedrockFailures : bedrockFailed(i, res)

Next ==
    \/ \E v \in InputTexts : setInput(v)
    \/ onSendChat
    \/ ChatResponse
    \/ clearChat
    \/ \E v \in InputTexts : setInputB(v)
    \/ sendMessage
    \/ BedrockResponse
    \/ clearChatB

Spec == Init /\ [][Next]_vars

\* The story tab as the user drives it: the fields, the three buttons and the
\* responses of the generator endpoint.
StoryResponse ==
    \E i \in 1..Len(storyPending) :
        \/ \E data \in PreviewData : storyPreviewResolved(i, data)
        \/ \E data \in SavedData : storyApproveResolved(i, data)
        \/ \E res \in Failures : storyFailed(i, res)

InitStory == Init /\ component = "refactor"

NextStory ==
    \/ \E v \in ObjTexts : setStoryObj(v)
    \/ \E v \in CtxStrings : setStoryCtx(v)
    \/ clickPreview
    \/ clickApprove
    \/ clearStory
    \/ StoryResponse

SpecStory == InitStory /\ [][NextStory]_vars

\* The story tab with its handlers called directly, whatever the buttons'
\* disabled attributes say: only the handlers' own early returns guard them.
\* The context field stays empty here: no guard reads it, and SpecStory
\* covers the bodies it enters.
NextStoryHandlers ==
    \/ \E v \in ObjTexts : setStoryObj(v)
    \/ Len(storyPending) < MaxPending /\ onStoryPreview
    \/ Len(storyPending) < MaxPending /\ onStoryApprove
    \/ clearStory
    \/ StoryResponse

SpecStoryHandlers == InitStory /\ [][NextStoryHandlers]_vars

\* A whole session, with every response eventually delivered.  The chat tab,
\* the story tab and BedrockClaudeChat share no state and one of them is on
\* screen at a time (line 250): a session of each is a behaviour of its own,
\* entered from the state in which the others are still as mounted.
chatIdle ==
    /\ messages = <<Msg("assistant", Greeting)>>
    /\ chatPending = <<>>
    /\ ~chatLoading
    /\ chatError = Null
    /\ chatCitations = <<>>

storyIdle ==
    /\ storyPending = <<>>
    /\ ~storyLoading
    /\ storyError = Null
    /\ storyPreview = <<>>
    /\ storySavedUri = Null
    /\ storyObj = <<>>
    /\ storyCtx = ""
    /\ storyCitations = <<>>
    /\ previewOf = <<>>
    /\ savedOf = <<>>

NextSession ==
    \/ storyIdle /\ Next
    \/ chatIdle /\ input = <<>> /\ NextStory

SpecSession ==
    /\ Init
    /\ [][NextSession]_vars
    /\ WF_vars(ChatResponse)
    /\ WF_vars(BedrockResponse)
    /\ WF_vars(StoryResponse)

\* The normalisation of an answer evaluated on every text of up to MaxLen
\* tokens over one letter, the blank and the newline.
RECURSIVE TextsUpTo(_)
TextsUpTo(n) ==
    IF n = 0 THEN {<<>>}
    ELSE LET shorter == TextsUpTo(n - 1) IN
         shorter \cup {Append(t, c) : t \in shorter, c \in {"a", SP, NL}}

normalize ==
    /\ event = "mount"
    /\ event' = "normalize"
    /\ fnResult' = normalizeAnswer(fnArg)
    /\ UNCHANGED <<component, fnArg, chatVars, storyVars, bedrockVars, routeVars>>

\* the normalised text comes back as an answer and is normalised again
renormalize ==
    /\ event = "normalize"
    /\ event' = "renormalize"
    /\ fnArg' = fnResult
    /\ fnResult' = normalizeAnswer(fnResult)
    /\ UNCHANGED <<component, chatVars, storyVars, bedrockVars, routeVars>>

InitNormalize ==
    /\ component = "refactor"
    /\ event = "mount"
    /\ messages = <<Msg("assistant", Greeting)>>
    /\ input = <<>>
    /\ chatLoading = FALSE
    /\ chatError = Null
    /\ chatCitations = <<>>
    /\ chatPending = <<>>
    /\ storyObj = <<>>
    /\ storyCtx = ""
    /\ storyLoading = FALSE
    /\ storyError = Null
    /\ storyPreview = <<>>
    /\ storySavedUri = Null
    /\ storyCitations = <<>>
    /\ storyPending = <<>>
    /\ previewOf = <<>>
    /\ savedOf = <<>>
    /\ inputB = <<>>
    /\ loading = FALSE
    /\ error = Null
    /\ messagesB = <<Msg("assistant", GreetingB)>>
    /\ pendingB = <<>>
    /\ fnArg \in TextsUpTo(MaxLen)
    /\ fnResult = <<>>
    /\ request = <<>>
    /\ sent = <<>>
    /\ reply = <<>>
    /\ returned = <<>>

NextNormalize == normalize \/ renormalize

SpecNormalize == InitNormalize /\ [][NextNormalize]_vars

\* toAnthropicPrompt evaluated on every history of up to MaxHistory turns,
\* the empty one and those that open with an assistant turn included.
PromptContents == { <<>>, <<"hi">> }

PromptTurns == { Msg(r, c) : r \in {"user", "assistant"}, c \in PromptContents }

RECURSIVE HistoriesUpTo(_)
HistoriesUpTo(n) ==
    IF n = 0 THEN {<<>>}
    ELSE LET shorter == HistoriesUpTo(n - 1) IN
         shorter \cup {Append(h, m) : h \in shorter, m \in PromptTurns}

buildPrompt ==
    /\ event = "mount"
    /\ event' = "toAnthropicPrompt"
    /\ fnResult' = toAnthropicPrompt(fnArg.history, fnArg.userMessage)
    /\ UNCHANGED <<component, fnArg, chatVars, storyVars, bedrockVars, routeVars>>

InitPrompt ==
    /\ component = "bedrock"
    /\ event = "mount"
    /\ messages = <<Msg("assistant", Greeting)>>
    /\ input = <<>>
    /\ chatLoading = FALSE
    /\ chatError = Null
    /\ chatCitations = <<>>
    /\ chatPending = <<>>
    /\ storyObj = <<>>
    /\ storyCtx = ""
    /\ storyLoading = FALSE
    /\ storyError = Null
    /\ storyPreview = <<>>
    /\ storySavedUri = Null
    /\ storyCitations = <<>>
    /\ storyPending = <<>>
    /\ previewOf = <<>>
    /\ savedOf = <<>>
    /\ inputB = <<>>
    /\ loading = FALSE
    /\ error = Null
    /\ messagesB = <<Msg("assistant", GreetingB)>>
    /\ pendingB = <<>>
    /\ fnArg \in [history : HistoriesUpTo(MaxHistory), userMessage : PromptContents \cup {<<"yo">>}]
    /\ fnResult = <<>>
    /\ request = <<>>
    /\ sent = <<>>
    /\ reply = <<>>
    /\ returned = <<>>

NextPrompt == buildPrompt

SpecPrompt == InitPrompt /\ [][NextPrompt]_vars

\* The route handler on its own: requests arrive one after the other, and the
\* model answers each that reached it.
InitRoute == Init /\ component = "bedrock"

NextRoute ==
    \/ \E r \in Requests : POST(r)
    \/ \E rp \in ModelReplies : modelReplied(rp)

SpecRoute == InitRoute /\ [][NextRoute]_vars

----------------------------------------------------------------------------
(* Claims *)

Last(s) == s[Len(s)]
IsBlank(s) == \A k \in 1..Len(s) : s[k] \in Whitespace

\* a step in which a chat request of the component got its response
chatSettles    == Len(chatPending') < Len(chatPending)
bedrockSettles == Len(pendingB') < Len(pendingB)

\* C1: once a preview has succeeded, an approve sends the body of that preview
\* request with approve set to true, whatever the fields hold by then.
C1_ApproveSendsPreviewedBody ==
    [][ (event' = "onStoryApprove" /\ Len(storyPending') > Len(storyPending)
            /\ previewOf # <<>>)
        => Last(storyPending').body = [previewOf[1] EXCEPT !.approve = TRUE] ]_vars

C3_RejectedSubmitDropped ==
    [][ /\ (event' = "onSendChat" /\ (IsBlank(input) \/ chatLoading))
            => UNCHANGED <<messages, chatPending, chatLoading>>
        /\ (event' = "sendMessage" /\ (IsBlank(inputB) \/ loading))
            => UNCHANGED <<messagesB, pendingB, loading>>
        /\ Len(chatPending') <= 1
        /\ Len(pendingB') <= 1 ]_vars

\* a non-blank submit was made, and dropped, while a request is in flight
C3_Witness ==
    /\ event = "onSendChat"
    /\ chatLoading
    /\ ~IsBlank(input)
    /\ Len(chatPending) = 1

\* C4: with the saved location set, an approve sends nothing and leaves the
\* saved location as it is.
C4_ApproveIdempotentOnceSaved ==
    [][ (storySavedUri # Null /\ event' = "onStoryApprove")
        => (storyPending' = storyPending /\ storySavedUri' = storySavedUri) ]_vars

\* C5 as stated: right after a reset the banner error is null and the
\* controller is not in flight.
C5_ResetClearsInFlight ==
    [][ /\ event' = "clearChat" => (chatError' = Null /\ ~chatLoading')
        /\ event' = "clearChatB" => (error' = Null /\ ~loading') ]_vars

\* C5 amended: a reset clears the banner error and leaves the in-flight flag as
\* it was, which is set exactly when a request is outstanding.
C5_ResetKeepsInFlight ==
    [][ /\ event' = "clearChat" =>
            /\ chatError' = Null
            /\ chatLoading' = chatLoading
            /\ chatLoading' <=> chatPending' # <<>>
        /\ event' = "clearChatB" =>
            /\ error' = Null
            /\ loading' = loading
            /\ loading' <=> pendingB' # <<>> ]_vars

\* a reset made with a request outstanding: still in flight
C5_Witness ==
    /\ event = "clearChat"
    /\ chatError = Null
    /\ chatLoading
    /\ chatPending # <<>>

\* C6: a reset leaves a transcript of exactly one turn, the assistant's greeting.
C6_ResetYieldsGreeting ==
    [][ /\ event' = "clearChat" => messages' = <<Msg("assistant", NewChatGreeting)>>
        /\ event' = "clearChatB" => messagesB' = <<Msg("assistant", NewChatGreetingB)>> ]_vars

\* a reset of a transcript that was full, with a request outstanding
C6_Witness ==
    /\ event = "clearChat"
    /\ Len(messages) = 1
    /\ chatPending # <<>>
    /\ Len(chatPending[1].messages) = MaxTurns

\* C7: a reset leaves the request in flight alone, and its response, whenever
\* it arrives, appends an assistant turn to the transcript as it then is.
C7_ResetNeverCancels ==
    [][ /\ event' = "clearChat" => chatPending' = chatPending
        /\ event' = "chatResolved" =>
            /\ Len(chatPending') = Len(chatPending) - 1
            /\ messages' = Append(messages, Last(messages'))
            /\ Last(messages').role = "assistant" ]_vars

\* the fresh greeting followed by the late answer, and no user turn
C7_Witness ==
    /\ Len(messages) = 2
    /\ messages[1] = Msg("assistant", NewChatGreeting)
    /\ messages[2].role = "assistant"

\* C8: a saved location is only there together with a non-empty preview, and
\* it came from an approve request sent for that preview.
C8_SavedOnlyAlongLifecycle ==
    storySavedUri # Null =>
        /\ storyPreview # <<>>
        /\ savedOf # <<>>
        /\ savedOf[1].body.approve
        /\ savedOf[1].preview = storyPreview

\* C9: a failed approve sets the error and leaves the preview, its citations,
\* the fields the request is built from and the saved location as they were,
\* with the buttons enabled again.
C9_FailedApproveKeepsPreview ==
    [][ event' = "storyApproveFailed" =>
            /\ storyError' \notin {Null, ""}
            /\ UNCHANGED <<storyPreview, storyCitations, storySavedUri,
                           storyObj, storyCtx, previewOf>>
            /\ ~storyLoading' ]_vars

\* an approve has failed: the preview is still there, nothing is saved
C9_Witness ==
    /\ event = "storyApproveFailed"
    /\ storyPreview # <<>>
    /\ storyCitations # <<>>
    /\ storySavedUri = Null
    /\ storyError # Null
    /\ ~storyLoading

\* C10: the transcript is never empty.
C10_TranscriptNeverEmpty ==
    /\ Len(messages) >= 1
    /\ Len(messagesB) >= 1

\* after a reset, a submit and its failure
C10_Witness ==
    /\ event = "chatFailed"
    /\ messages[1] = Msg("assistant", NewChatGreeting)
    /\ Len(messages) = 2

IsPrefix(s, t) == Len(s) <= Len(t) /\ SubSeq(t, 1, Len(s)) = s

\* C11: every step that is not a reset keeps the turns of the transcript as
\* they are, in their order, and at most appends to them.
C11_AppendOnlyBetweenResets ==
    [][ /\ event' # "clearChat" => IsPrefix(messages, messages')
        /\ event' # "clearChatB" => IsPrefix(messagesB, messagesB') ]_vars

\* an answer appended after a reset that was made with its request in flight
C11_Witness ==
    /\ event = "chatResolved"
    /\ Len(messages) = 2
    /\ messages[1] = Msg("assistant", NewChatGreeting)
    /\ chatError = Null
    /\ chatCitations # <<>>

\* a submit that passes the guard of line 97 / 474
chatAccepts    == event' = "onSendChat" /\ ~IsBlank(input) /\ ~chatLoading
bedrockAccepts == event' = "sendMessage" /\ ~IsBlank(inputB) /\ ~loading

ResetTranscript  == <<Msg("assistant", NewChatGreeting)>>
ResetTranscriptB == <<Msg("assistant", NewChatGreetingB)>>

\* C12: an accepted submit appends the user turn in the step that issues the
\* request, and a failure leaves the transcript as it is: what the request was
\* sent with, user turn last, unless a reset came in between.
C12_UserTurnSurvivesFailure ==
    [][ /\ chatAccepts =>
            /\ messages' = Append(messages, Msg("user", trim(input)))
            /\ chatPending' = Append(chatPending, [messages |-> messages'])
        /\ event' = "chatFailed" =>
            /\ messages' = messages
            /\ messages' \in {chatPending[1].messages, ResetTranscript}
        /\ bedrockAccepts =>
            /\ messagesB' = Append(messagesB, Msg("user", trim(inputB)))
            /\ Len(pendingB') = Len(pendingB) + 1
            /\ Last(pendingB').history = messagesB'
        /\ event' = "bedrockFailed" =>
            /\ messagesB' = messagesB
            /\ messagesB' \in {pendingB[1].history, ResetTranscriptB} ]_vars

\* the second submission of a conversation has failed: its user turn is there
C12_Witness ==
    /\ event = "chatFailed"
    /\ Len(messages) = 4
    /\ messages[2].role = "user"
    /\ messages[3].role = "assistant"
    /\ messages[4].role = "user"

\* C14: an accepted submit issues one request, whose messages are the
\* transcript before the submit followed by the new user turn, and no other
\* step issues a request.
C14_OneRequestWithHistory ==
    [][ /\ chatAccepts =>
            /\ Len(chatPending') = Len(chatPending) + 1
            /\ Last(chatPending').messages = Append(messages, Msg("user", trim(input)))
        /\ ~chatAccepts => IsPrefix(chatPending', chatPending) ]_vars

\* a request in flight that carries an earlier exchange and the new turn
C14_Witness ==
    /\ Len(chatPending) = 1
    /\ Len(chatPending[1].messages) = 4
    /\ chatPending[1].messages[3].role = "assistant"
    /\ chatPending[1].messages[4] = Msg("user", <<"yo">>)

storySettles == Len(storyPending') < Len(storyPending)

\* C13: a response, good or bad, switches the loading flag of its workflow
\* off, and with every response eventually delivered no workflow stays in
\* flight for ever.
C13_InFlightAlwaysEnds ==
    /\ [][ /\ chatSettles => ~chatLoading'
           /\ bedrockSettles => ~loading'
           /\ storySettles => ~storyLoading' ]_vars
    /\ chatLoading ~> ~chatLoading
    /\ loading ~> ~loading
    /\ storyLoading ~> ~storyLoading

\* a submission has failed and the next one was accepted
C13_Witness ==
    /\ event = "onSendChat"
    /\ chatLoading
    /\ Len(messages) = 3
    /\ messages[2].role = "user"
    /\ messages[3].role = "user"

\* the command tokens of the specification
CommandTokens == {"/story", "/rtr"}
IsCommand(s) == trim(s) # <<>> /\ Head(trim(s)) \in CommandTokens

C16_BlankObjectiveHandledLocally ==
    [][ (event' = "onStoryPreview" /\ IsBlank(storyObj)) =>
            /\ storyPending' = storyPending
            /\ storyError' = UsageHint
            /\ UNCHANGED <<storyPreview, storyCitations, storySavedUri, storyLoading>> ]_vars

\* the hint is shown next to a preview that was generated and saved before
C16_Witness ==
    /\ event = "onStoryPreview"
    /\ storyError = UsageHint
    /\ storyPreview # <<>>
    /\ storyCitations # <<>>
    /\ storySavedUri # Null
    /\ storyPending = <<>>

\* C17 as stated: a failed chat request of either component leaves an error
\* message that is neither null nor empty.
C17_FailureLeavesVisibleError ==
    [][ /\ event' = "chatFailed" => chatError' \notin {Null, ""}
        /\ event' = "bedrockFailed" => error' \notin {Null, ""} ]_vars

\* C18 as stated: no assistant turn of either transcript has empty text.
C18_NoEmptyAssistantTurn ==
    /\ \A k \in 1..Len(messages) :
           messages[k].role = "assistant" => messages[k].content # <<>>
    /\ \A k \in 1..Len(messagesB) :
           messagesB[k].role = "assistant" => messagesB[k].content # <<>>

\* the maximal runs of equal tokens of a text, in order
RECURSIVE Blocks(_)
Blocks(s) ==
    IF s = <<>> THEN <<>>
    ELSE LET rest == Blocks(Tail(s)) IN
         IF rest # <<>> /\ rest[1].ch = Head(s)
         THEN <<[ch |-> Head(s), n |-> rest[1].n + 1]>> \o Tail(rest)
         ELSE <<[ch |-> Head(s), n |-> 1]>> \o rest

\* the text between its first and its last token that is not whitespace
Trimmed(s) ==
    IF IsBlank(s) THEN <<>>
    ELSE LET solid == {k \in 1..Len(s) : s[k] \notin Whitespace}
             first == CHOOSE k \in solid : \A j \in solid : k <= j
             last  == CHOOSE k \in solid : \A j \in solid : k >= j
         IN  SubSeq(s, first, last)

\* runs of three or more newlines cut to two, everything else as it is
CapNewlines(blocks) ==
    [k \in 1..Len(blocks) |->
        IF blocks[k].ch = NL /\ blocks[k].n >= 3
        THEN [ch |-> NL, n |-> 2] ELSE blocks[k]]

\* C19: the normalised answer is the trimmed text with every run of three or
\* more newlines cut to two and nothing else changed; it has no run of three
\* newlines and no whitespace at either end, and normalising it again returns it.
C19_NormalizedText ==
    event \in {"normalize", "renormalize"} =>
        /\ Blocks(fnResult) = CapNewlines(Blocks(Trimmed(fnArg)))
        /\ \A k \in 1..Len(fnResult) - 2 :
               ~(fnResult[k] = NL /\ fnResult[k + 1] = NL /\ fnResult[k + 2] = NL)
        /\ fnResult # <<>> =>
               (fnResult[1] \notin Whitespace /\ Last(fnResult) \notin Whitespace)
        /\ normalizeAnswer(fnResult) = fnResult
        /\ event = "renormalize" => fnResult = fnArg

\* four newlines between two letters: two are left
C19_Witness ==
    /\ event = "normalize"
    /\ fnArg = <<"a", NL, NL, NL, NL, "a">>
    /\ fnResult = <<"a", NL, NL, "a">>

IsTurnLine(l) == l.text # <<>>

\* C20 as stated: the prompt built for a request of sendMessage has one line
\* per turn of the transcript, in order, the new user message among them once.
C20_PromptHasMessageOnce ==
    \A k \in 1..Len(pendingB) :
        LET req == pendingB[k]
            prompt == toAnthropicPrompt(req.history, req.message)
        IN  SelectSeq(prompt, IsTurnLine)
                = [j \in 1..Len(req.history) |-> promptLine(req.history[j])]

\* C22: the POST handler of /api/bedrock never throws and always returns a
\* JSON response: once called it is awaiting the model or has returned;
\* a missing or empty message gives status 400 with an error field and no
\* call of the model; an exception while parsing the request, calling the
\* model or parsing its reply gives status 500 with a non-empty error field;
\* otherwise it gives status 200 with an output field, which is the completion
\* when there is one and empty when the reply carries no text.
C22_AlwaysJsonResponse ==
    /\ request # <<>> => (returned # <<>> \/ (sent # <<>> /\ reply = <<>>))
    /\ returned # <<>> =>
        LET r == request[1]
            out == returned[1]
            failed == /\ out.status = 500
                      /\ DOMAIN out.body = {"error"}
                      /\ out.body.error # ""
        IN  /\ ~r.ok => (failed /\ sent = <<>>)
            /\ (r.ok /\ ("message" \notin DOMAIN r.body \/ Len(r.body.message) = 0)) =>
                   /\ out.status = 400
                   /\ DOMAIN out.body = {"error"}
                   /\ sent = <<>>
            /\ (r.ok /\ "message" \in DOMAIN r.body /\ Len(r.body.message) > 0) =>
                   /\ Len(sent) = 1
                   /\ Len(reply) = 1
                   /\ reply[1].kind # "json" => failed
                   /\ reply[1].kind = "json" =>
                          LET data == reply[1].data
                              has(f) == f \in DOMAIN data /\ data[f] # <<>>
                          IN  /\ out.status = 200
                              /\ DOMAIN out.body = {"output"}
                              /\ has("completion") => out.body.output = data.completion
                              /\ (~has("completion") /\ ~has("output")) =>
                                     out.body.output = <<>>

\* client.send threw an Error without a message: the handler answers 500
\* with its own text
C22_Witness ==
    /\ event = "modelReplied"
    /\ reply # <<>>
    /\ reply[1].kind = "rejected"
    /\ reply[1].message = ""
    /\ returned = <<[status |-> 500, body |-> [error |-> "Erro interno"]]>>

\* C21: for every history, the empty one and those opening with an assistant
\* turn included, and every user message, the prompt starts with the Human
\* tag and ends with the bare Assistant cue, and between them holds one line
\* per history turn, in the order of the history, followed by the user message
\* as the last Human line.
C21_PromptShape ==
    event = "toAnthropicPrompt" =>
        LET h == fnArg.history
            u == fnArg.userMessage
            p == fnResult
            turns == SelectSeq(p, IsTurnLine)
        IN  /\ p[1].tag = "Human"
            /\ Last(p) = AssistantCue
            /\ Len(turns) = Len(h) + 1
            /\ \A k \in 1..Len(h) :
                   /\ turns[k].text = <<h[k].content>>
                   /\ turns[k].tag = "Human" <=> h[k].role = "user"
            /\ Last(turns) = [tag |-> "Human", text |-> <<u>>]
            /\ \A k \in 1..Len(p) :
                   (p[k].tag = "Human" /\ \A j \in (k + 1)..Len(p) : p[j].tag # "Human")
                       => p[k].text = <<u>>
            /\ \A k \in 2..(Len(p) - 1) : IsTurnLine(p[k])

\* a history of two turns that opens with an assistant turn: the Human tag
\* is put in front of the joined lines
C21_Witness ==
    /\ event = "toAnthropicPrompt"
    /\ Len(fnArg.history) = 2
    /\ fnArg.history[1].role = "assistant"
    /\ fnResult[1] = HumanPrefix
    /\ Len(fnResult) = 5

====
